---- MODULE Spec2Model ----
(***************************************************************************)
(* Model of the FastAPI prediction clients of bio/model/__init__.py:       *)
(* FastAPIBaseModel, YOLOv5 and KClassify.  One client is constructed and  *)
(* then used for a sequence of synchronous predict calls.  Scores and      *)
(* thresholds are integers (fixed-point), strings are sequences of         *)
(* one-character strings.                                                  *)
(***************************************************************************)
EXTENDS Integers, Sequences, FiniteSets

VARIABLES kind, endpointArg, endpoint, pc, op, image, requests,
          threshold, top_n, response, results, ret, err

vars == <<kind, endpointArg, endpoint, pc, op, image, requests,
          threshold, top_n, response, results, ret, err>>

(* ------------------------------ bounds --------------------------------- *)

MaxLen == 3

MaxScore == 1

MaxNegTopN == 2

(* ------------------------------ inputs --------------------------------- *)

Labels == {"A", "B"}

Scores == 0..MaxScore

Thresholds == 0..(MaxScore + 1)

TopNs == (0 - MaxNegTopN)..(MaxLen + 1)

EndpointArgs == { <<>>, <<"/">>, <<"a">>, <<"a", "/">> }

ScoreItems == [score : Scores, label : Labels]

ConfidenceItems == [confidence : Scores, label : Labels]

SeqsUpTo(S, n) == UNION { [1..k -> S] : k \in 0..n }

\* A parsed response body: the documented {"result": [...]} document of a
\* classification or of a detection service, or a document without 'result'.
Docs == { [result |-> R] : R \in SeqsUpTo(ScoreItems, MaxLen) }
          \cup { [result |-> R] : R \in SeqsUpTo(ConfidenceItems, MaxLen) }
          \cup { [detail |-> "error"] }

NoResponse == [status |-> "none"]

Min(a, b) == IF a <= b THEN a ELSE b

Max(a, b) == IF a >= b THEN a ELSE b

(* --------------------------- pure functions ---------------------------- *)

\* str.endswith('/')
EndsWithSlash(e) == Len(e) > 0 /\ e[Len(e)] = "/"

Normalize_always(e) == Append(e, "/")

\* FastAPIBaseModel.__init__: append '/' unless the endpoint ends with it
Normalize(e) == IF ~EndsWithSlash(e) THEN Append(e, "/") ELSE e

\* result[key] raises KeyError on the first item without the key
FilterRaises(R, key) == \E i \in 1..Len(R) : key \notin DOMAIN R[i]

Filter_strict(R, key, t) == SelectSeq(R, LAMBDA r : r[key] > t)

\* [result for result in R if result[key] >= t]
Filter(R, key, t) == SelectSeq(R, LAMBDA r : r[key] >= t)

Insert_unstable(x, s) ==
    LET before == SelectSeq(s, LAMBDA y : y.score > x.score)
        after  == SelectSeq(s, LAMBDA y : ~(y.score > x.score))
    IN  before \o <<x>> \o after

\* place x behind every element whose score is >= x's: equal keys keep
\* their input order, as Python's sorted(..., reverse=True) guarantees
Insert(x, s) ==
    LET before == SelectSeq(s, LAMBDA y : y.score >= x.score)
        after  == SelectSeq(s, LAMBDA y : ~(y.score >= x.score))
    IN  before \o <<x>> \o after

RECURSIVE SortedPrefix(_, _)
SortedPrefix(R, k) == IF k = 0 THEN <<>> ELSE Insert(R[k], SortedPrefix(R, k - 1))

\* sorted(results, key=lambda k: k['score'], reverse=True)
SortedDesc(R) == SortedPrefix(R, Len(R))

Slice_short(s, n) ==
    IF n >= 0 THEN SubSeq(s, 1, Min(Max(n - 1, 0), Len(s)))
              ELSE SubSeq(s, 1, Max(Len(s) + n, 0))

\* results[:top_n]: a negative bound counts from the end of the list
Slice(s, n) ==
    IF n >= 0 THEN SubSeq(s, 1, Min(n, Len(s)))
              ELSE SubSeq(s, 1, Max(Len(s) + n, 0))

(* ------------------------------ actions -------------------------------- *)

Init ==
    /\ kind = "none"
    /\ endpointArg = <<>>
    /\ endpoint = <<>>
    /\ pc = "new"
    /\ op = "none"
    /\ image = "none"
    /\ requests = 0
    /\ threshold = 0
    /\ top_n = 0
    /\ response = NoResponse
    /\ results = <<>>
    /\ ret = "none"
    /\ err = "none"

\* FastAPIBaseModel.__init__, reached directly or through super().__init__
Construct(k, e) ==
    /\ pc = "new"
    /\ kind' = k
    /\ endpointArg' = e
    /\ endpoint' = Normalize(e)
    /\ pc' = "idle"
    /\ UNCHANGED <<op, image, requests, threshold, top_n, response, results, ret, err>>

CanCall == pc \in {"idle", "returned", "raised"}

\* entry of YOLOv5.predict_file(path, threshold) and of
\* KClassify.predict_file(path, threshold, top_n)
CallPredictFile(t, n) ==
    /\ CanCall
    /\ kind \in {"YOLOv5", "KClassify"}
    /\ kind = "YOLOv5" => n = 0
    /\ op' = "predict_file"
    /\ pc' = "open"
    /\ threshold' = t
    /\ top_n' = n
    /\ image' = "none"
    /\ requests' = 0
    /\ response' = NoResponse
    /\ results' = <<>>
    /\ ret' = "none"
    /\ err' = "none"
    /\ UNCHANGED <<kind, endpointArg, endpoint>>

\* a caller invoking predict_bytes itself: KClassify's override takes
\* (bytes, threshold, top_n), the base method (also on YOLOv5) only bytes
CallPredictBytes(t, n) ==
    /\ CanCall
    /\ kind \in {"FastAPIBaseModel", "YOLOv5", "KClassify"}
    /\ kind # "KClassify" => (t = 0 /\ n = 0)
    /\ op' = "predict_bytes"
    /\ pc' = "post"
    /\ threshold' = t
    /\ top_n' = n
    /\ image' = "none"
    /\ requests' = 0
    /\ response' = NoResponse
    /\ results' = <<>>
    /\ ret' = "none"
    /\ err' = "none"
    /\ UNCHANGED <<kind, endpointArg, endpoint>>

OpenImage_late ==
    /\ pc = "open"
    /\ \E ok \in BOOLEAN :
         IF ok
         THEN /\ image' = "open"
              /\ pc' = "save"
              /\ UNCHANGED <<err, requests>>
         ELSE /\ pc' = "raised"
              /\ err' = "ImageOpenError"
              /\ requests' = requests + 1
              /\ UNCHANGED image
    /\ UNCHANGED <<kind, endpointArg, endpoint, op, threshold, top_n,
                   response, results, ret>>

\* image = Image.open(image_path)
OpenImage ==
    /\ pc = "open"
    /\ \E ok \in BOOLEAN :
         IF ok
         THEN /\ image' = "open"
              /\ pc' = "save"
              /\ UNCHANGED err
         ELSE /\ pc' = "raised"
              /\ err' = "ImageOpenError"
              /\ UNCHANGED image
    /\ UNCHANGED <<kind, endpointArg, endpoint, op, requests, threshold, top_n,
                   response, results, ret>>

\* byte_io = io.BytesIO(); image.save(byte_io, format='JPEG'); byte_io.seek(0)
SaveImage ==
    /\ pc = "save"
    /\ \E ok \in BOOLEAN :
         IF ok
         THEN /\ pc' = "invoke"
              /\ UNCHANGED err
         ELSE /\ pc' = "raised"
              /\ err' = "ImageSaveError"
    /\ UNCHANGED <<kind, endpointArg, endpoint, op, image, requests, threshold,
                   top_n, response, results, ret>>

\* YOLOv5.predict_file: super().predict_bytes(byte_io, threshold) passes two
\* arguments to a method that takes one, so the call raises TypeError
YOLOv5Invoke ==
    /\ pc = "invoke"
    /\ kind = "YOLOv5"
    /\ pc' = "raised"
    /\ err' = "TypeError"
    /\ UNCHANGED <<kind, endpointArg, endpoint, op, image, requests, threshold,
                   top_n, response, results, ret>>

\* KClassify.predict_file: self.predict_bytes(byte_io, threshold, top_n),
\* which starts with super().predict_bytes(image_bytes)
KClassifyInvoke ==
    /\ pc = "invoke"
    /\ kind = "KClassify"
    /\ pc' = "post"
    /\ UNCHANGED <<kind, endpointArg, endpoint, op, image, requests, threshold,
                   top_n, response, results, ret, err>>

BasePredictBytes_retry ==
    /\ pc = "post"
    /\ requests' = requests + 1
    /\ \/ /\ requests = 0
          /\ UNCHANGED <<pc, err, response, ret>>
       \/ /\ requests > 0
          /\ pc' = "raised"
          /\ err' = "TransportError"
          /\ UNCHANGED <<response, ret>>
       \/ /\ pc' = "raised"
          /\ err' = "DecodeError"
          /\ UNCHANGED <<response, ret>>
       \/ \E doc \in Docs :
            /\ response' = doc
            /\ IF kind = "KClassify"
               THEN pc' = "postprocess" /\ UNCHANGED ret
               ELSE pc' = "returned" /\ ret' = "doc"
            /\ UNCHANGED err
    /\ UNCHANGED <<kind, endpointArg, endpoint, op, image, threshold, top_n, results>>

\* FastAPIBaseModel.predict_bytes: one post(), then response.json()
BasePredictBytes ==
    /\ pc = "post"
    /\ requests' = requests + 1
    /\ \/ /\ pc' = "raised"
          /\ err' = "TransportError"
          /\ UNCHANGED <<response, ret>>
       \/ /\ pc' = "raised"
          /\ err' = "DecodeError"
          /\ UNCHANGED <<response, ret>>
       \/ \E doc \in Docs :
            /\ response' = doc
            /\ IF kind = "KClassify"
               THEN pc' = "postprocess" /\ UNCHANGED ret
               ELSE pc' = "returned" /\ ret' = "doc"
            /\ UNCHANGED err
    /\ UNCHANGED <<kind, endpointArg, endpoint, op, image, threshold, top_n, results>>

\* KClassify.predict_bytes after the base call: filter, sort, truncate
KClassifyPostProcess ==
    /\ pc = "postprocess"
    /\ IF "result" \notin DOMAIN response \/ FilterRaises(response.result, "score")
       THEN /\ pc' = "raised"
            /\ err' = "KeyError"
            /\ UNCHANGED <<results, ret>>
       ELSE /\ results' = Slice(SortedDesc(Filter(response.result, "score", threshold)), top_n)
            /\ IF op = "predict_file"
               THEN pc' = "close" /\ UNCHANGED ret
               ELSE pc' = "returned" /\ ret' = "list"
            /\ UNCHANGED err
    /\ UNCHANGED <<kind, endpointArg, endpoint, op, image, requests, threshold,
                   top_n, response>>

\* KClassify.predict_file: image.close(); return results
CloseImage ==
    /\ pc = "close"
    /\ image' = "closed"
    /\ pc' = "returned"
    /\ ret' = "list"
    /\ UNCHANGED <<kind, endpointArg, endpoint, op, requests, threshold, top_n,
                   response, results, err>>

Next ==
    \/ \E k \in {"FastAPIBaseModel", "YOLOv5", "KClassify"}, e \in EndpointArgs : Construct(k, e)
    \/ \E t \in Thresholds, n \in TopNs : CallPredictFile(t, n)
    \/ \E t \in Thresholds, n \in TopNs : CallPredictBytes(t, n)
    \/ OpenImage
    \/ SaveImage
    \/ YOLOv5Invoke
    \/ KClassifyInvoke
    \/ BasePredictBytes
    \/ KClassifyPostProcess
    \/ CloseImage

Spec == Init /\ [][Next]_vars

(* ----------------- the threshold filters on their own ------------------ *)

\* the key each variant filters on
FilterKey(k) == IF k = "YOLOv5" THEN "confidence" ELSE "score"

ItemsOf(k) == IF k = "YOLOv5" THEN ConfidenceItems ELSE ScoreItems

FilterInit ==
    /\ kind \in {"YOLOv5", "KClassify"}
    /\ endpointArg = <<"a">>
    /\ endpoint = Normalize(endpointArg)
    /\ pc = "filter"
    /\ op = "none"
    /\ image = "none"
    /\ requests = 0
    /\ threshold \in Thresholds
    /\ top_n = 0
    /\ response \in { [result |-> R] : R \in SeqsUpTo(ItemsOf(kind), MaxLen) }
    /\ results = <<>>
    /\ ret = "none"
    /\ err = "none"

\* YOLOv5.predict_file, the comprehension on 'confidence'
YOLOv5Filter ==
    /\ pc = "filter"
    /\ kind = "YOLOv5"
    /\ results' = Filter(response.result, "confidence", threshold)
    /\ pc' = "filtered"
    /\ UNCHANGED <<kind, endpointArg, endpoint, op, image, requests, threshold,
                   top_n, response, ret, err>>

\* KClassify.predict_bytes, the comprehension on 'score'
KClassifyFilter ==
    /\ pc = "filter"
    /\ kind = "KClassify"
    /\ results' = Filter(response.result, "score", threshold)
    /\ pc' = "filtered"
    /\ UNCHANGED <<kind, endpointArg, endpoint, op, image, requests, threshold,
                   top_n, response, ret, err>>

FilterNext == YOLOv5Filter \/ KClassifyFilter

SpecFilter == FilterInit /\ [][FilterNext]_vars

(* ------------------------- helpers for the claims ---------------------- *)

RECURSIVE IsSubseq(_, _)
\* a can be obtained from b by deleting elements
IsSubseq(a, b) ==
    IF a = <<>> THEN TRUE
    ELSE IF b = <<>> THEN FALSE
    ELSE IF Head(a) = Head(b) THEN IsSubseq(Tail(a), Tail(b))
    ELSE IsSubseq(a, Tail(b))

CountIdx(s, P(_)) == Cardinality({ i \in 1..Len(s) : P(s[i]) })

Occurrences(s, x) == Cardinality({ i \in 1..Len(s) : s[i] = x })

Range(s) == { s[i] : i \in 1..Len(s) }

\* a KClassify call has produced its result list
KClassifyDone == kind = "KClassify" /\ pc \in {"close", "returned"}

(* -------------------------------- claims ------------------------------- *)

\* C1: the threshold filter (on 'score' in KClassify.predict_bytes, on
\* 'confidence' in YOLOv5.predict_file) keeps exactly the items of the
\* response whose value is >= the threshold, in their original order, and
\* keeps no item below the threshold.
C1_FilterExact ==
    pc = "filtered" =>
        LET R == response.result
            key == FilterKey(kind)
        IN  /\ \A i \in 1..Len(results) : results[i][key] >= threshold
            /\ IsSubseq(results, R)
            /\ Len(results) = CountIdx(R, LAMBDA r : r[key] >= threshold)

C1_Witness ==
    /\ pc = "filtered"
    /\ Len(response.result) = 3
    /\ Len(results) = 2
    /\ response.result[2][FilterKey(kind)] < threshold
    /\ results[1][FilterKey(kind)] = threshold

\* C2: for top_n >= 0 the list KClassify.predict_bytes produces has length
\* min(top_n, number of filtered items), is sorted by descending score and
\* consists of the top_n highest-scoring filtered items.
C2_RankTopN ==
    (KClassifyDone /\ top_n >= 0) =>
        LET F == Filter(response.result, "score", threshold)
        IN  /\ Len(results) = Min(top_n, Len(F))
            /\ \A i \in 1..(Len(results) - 1) : results[i].score >= results[i + 1].score
            /\ \A x \in Range(F) :
                 /\ Occurrences(results, x) <= Occurrences(F, x)
                 /\ Occurrences(results, x) < Occurrences(F, x) =>
                        \A j \in 1..Len(results) : results[j].score >= x.score
            /\ Range(results) \subseteq Range(F)

C2_Witness ==
    /\ KClassifyDone
    /\ top_n = 2
    /\ threshold = 0
    /\ Len(response.result) = 3
    /\ response.result[1].score < response.result[3].score
    /\ Len(results) = 2
    /\ results[1] = response.result[3]

\* C10: the descending sort is stable: returned items of equal score keep
\* the relative order they had in the service response.
C10_StableSort ==
    KClassifyDone =>
        \A s \in Scores :
            IsSubseq(SelectSeq(results, LAMBDA r : r.score = s),
                     SelectSeq(response.result, LAMBDA r : r.score = s))

C10_Witness ==
    /\ KClassifyDone
    /\ Len(results) >= 2
    /\ results[1].score = results[2].score
    /\ results[1].label # results[2].label
    /\ response.result[1].score # results[1].score

\* C3: for every top_n <= 0 the classification pipeline returns an empty
\* list, and for top_n above the number of filtered items it returns the
\* whole sorted list.
C3_NonPositiveTopNEmpty ==
    KClassifyDone =>
        LET F == Filter(response.result, "score", threshold)
        IN  /\ top_n <= 0 => results = <<>>
            /\ top_n > Len(F) => results = SortedDesc(F)

\* C4: YOLOv5.predict_file on an image that opens and encodes runs on to the
\* network request: it never ends without having issued the request.
C4_DetectionPipelineCompletes ==
    (kind = "YOLOv5" /\ op = "predict_file" /\ pc = "raised")
        => (err \in {"ImageOpenError", "ImageSaveError"} \/ requests = 1)

\* C5: once constructed with argument e the client's endpoint is e when e
\* ends with '/', and e followed by '/' otherwise, through every predict
\* call, succeeding or failing.
C5_EndpointNormalized ==
    pc # "new" =>
        /\ Len(endpoint) > 0
        /\ endpoint[Len(endpoint)] = "/"
        /\ (Len(endpointArg) > 0 /\ endpointArg[Len(endpointArg)] = "/") => endpoint = endpointArg
        /\ ~(Len(endpointArg) > 0 /\ endpointArg[Len(endpointArg)] = "/") =>
               /\ Len(endpoint) = Len(endpointArg) + 1
               /\ SubSeq(endpoint, 1, Len(endpointArg)) = endpointArg

C5_Witness ==
    /\ pc = "raised"
    /\ err = "TransportError"
    /\ endpointArg = <<"a", "/">>
    /\ endpoint = <<"a", "/">>

\* C6: a client is never constructed from the empty endpoint string.
C6_EmptyEndpointRejected == pc # "new" => endpointArg # <<>>

\* C7: when predict_file returns or raises, the image handle it opened is
\* no longer open.
C7_ImageReleased ==
    (op = "predict_file" /\ pc \in {"returned", "raised"}) => image # "open"

\* C8: when the image cannot be opened or encoded, predict_file raises
\* before any request has been sent and returns nothing.
C8_ImageFailureBeforeRequest ==
    (op = "predict_file" /\ pc = "raised" /\ err \in {"ImageOpenError", "ImageSaveError"})
        => (requests = 0 /\ ret = "none" /\ response = NoResponse)

C8_Witness ==
    /\ op = "predict_file"
    /\ pc = "raised"
    /\ err = "ImageSaveError"
    /\ requests = 0

\* the body of predict_bytes has been entered and left
PredictBytesLeft ==
    \/ pc \in {"postprocess", "close", "returned"}
    \/ pc = "raised" /\ err \in {"TransportError", "DecodeError", "KeyError"}

\* C9: an invocation of predict_bytes makes exactly one request; when the
\* transport or the decoding fails the call raises and returns nothing.
C9_SingleAttempt ==
    /\ PredictBytesLeft => requests = 1
    /\ requests <= 1
    /\ pc = "raised" => (ret = "none" /\ results = <<>>)
    /\ (pc = "raised" /\ err \in {"TransportError", "DecodeError"}) => response = NoResponse

C9_Witness ==
    /\ kind = "KClassify"
    /\ op = "predict_bytes"
    /\ pc = "raised"
    /\ err = "TransportError"
    /\ requests = 1

====
